---- MODULE Spec2Model ----
(***************************************************************************)
(* A model of htmldom_read (src/src/lib.rs): the token normalizer, the     *)
(* recursive tree builder Node::from_html, the serializer Node::to_html,   *)
(* the attribute operations of Node, and the NodeAccess ownership model    *)
(* (Owned values and Arc-counted Sharable allocations).                    *)
(*                                                                         *)
(* Representation.                                                         *)
(*   Option<T>   : <<>> for None, <<x>> for Some(x).                       *)
(*   String      : a sequence of one-character strings; tag and attribute  *)
(*                 names are never split by the code under study and are   *)
(*                 kept as atoms.                                          *)
(*   Event       : [kind, name, attrs, text], the quick_xml events kept by *)
(*                 the collection loop (Start, End, Empty, Text).          *)
(*   Node        : [start, text, end, children].                           *)
(*   NodeAccess  : [kind |-> "Owned", node |-> <<n>>, ptr |-> 0] or        *)
(*                 [kind |-> "Sharable", node |-> <<>>, ptr |-> p], p an   *)
(*                 index into the sequence of Arc allocations.             *)
(*   Arc<Node>   : a cell [node |-> <<n>>, rc |-> strong count] of `heap`; *)
(*                 a freed cell is [node |-> <<>>, rc |-> 0].              *)
(***************************************************************************)
EXTENDS Integers, Sequences, FiniteSets, TLC

VARIABLES
    pc,        \* position of the caller in the scenario of the specification
    events,    \* from_html: the collected event list (`list`)
    settings,  \* from_html: the LoadSettings argument
    fixed,     \* from_html: `fixed_list`, the normalized events
    iter,      \* from_html: the top-level cursor, index of the next event
    nodes,     \* from_html: the top-level `nodes` list
    result,    \* from_html: the returned Option<Node>
    html,      \* to_html: the returned String
    heap,      \* the Arc<Node> allocations
    slots,     \* the caller's NodeAccess variables in the order of their declaration,
               \* Option<NodeAccess> each: None once the variable is dropped
    origin,    \* per variable: the (markup, settings) it was built from, untouched since
    last,      \* the last call made by the caller and what it returned
    tnode,     \* the Node the attribute operations are applied to
    tret,      \* the value returned by the last attribute operation
    criteria,  \* the ChildrenFetch criteria of the caller: key, value, value_part
    found,     \* fetch: the returned list, each &NodeAccess as its path from the start
    vraw,      \* the raw value string an Attribute is made from
    vret       \* the String returned by values_to_string

vars == <<pc, events, settings, fixed, iter, nodes, result, html, heap, slots, origin, last, tnode, tret,
          criteria, found, vraw, vret>>

buildVars == <<events, settings, fixed, iter, nodes, result, html>>
ownVars == <<slots, origin, last>>
attrVars == <<tnode, tret>>
fetchVars == <<criteria, found>>
valVars == <<vraw, vret>>

----------------------------------------------------------------------------
(* Bounds of the model. *)

\* longest event list handed to from_html
MaxLen == 4
\* NodeAccess variables the caller declares, one per value it obtains
MaxVars == 2
\* longest path of child indices the caller follows from one of its variables
MaxDepth == 2
\* largest child index the caller follows
MaxKids == 2

----------------------------------------------------------------------------
(* Option and small helpers. *)

None == <<>>
Some(x) == <<x>>
IsSome(o) == Len(o) = 1
Unwrap(o) == o[1]

\* char::is_whitespace, on the characters of the model
IsWhitespace(ch) == ch \in {" ", "\t", "\n", "\r"}

RECURSIVE StrTrimStart(_)
\* str::trim_start
StrTrimStart(s) ==
    IF s # <<>> /\ IsWhitespace(Head(s)) THEN StrTrimStart(Tail(s)) ELSE s

RECURSIVE StrTrimEnd(_)
\* str::trim_end
StrTrimEnd(s) ==
    IF s # <<>> /\ IsWhitespace(s[Len(s)]) THEN StrTrimEnd(SubSeq(s, 1, Len(s) - 1)) ELSE s

RECURSIVE SplitFrom(_, _, _)
\* str::split_whitespace, scanning s with the current word cur and the words acc
SplitFrom(s, cur, acc) ==
    IF s = <<>> THEN (IF cur = <<>> THEN acc ELSE Append(acc, cur))
    ELSE IF IsWhitespace(Head(s))
         THEN SplitFrom(Tail(s), <<>>, IF cur = <<>> THEN acc ELSE Append(acc, cur))
         ELSE SplitFrom(Tail(s), Append(cur, Head(s)), acc)

SplitWhitespace(s) == SplitFrom(s, <<>>, <<>>)

----------------------------------------------------------------------------
(* Token normalizer: the closures of `fixed_list` in Node::from_html. *)

trim_start(s) ==
    IF s = <<>> THEN s
    ELSE IF Head(s) = "\n" THEN StrTrimStart(s)
    ELSE IF Head(s) = "\t" \/ Head(s) = " "
         THEN IF \E k \in 2..Len(s) : s[k] # "\t" /\ s[k] # " " /\ s[k] # "\n"
              THEN s
              ELSE StrTrimStart(s)
    ELSE s

\* a trim_end that strips the trailing whitespace of every text
trim_end_always(s) == StrTrimEnd(s)

trim_end(s) ==
    IF \E k \in 1..Len(s) : s[k] = "\n" THEN StrTrimEnd(s) ELSE s

RECURSIVE fixed_list(_)
fixed_list(list) ==
    IF list = <<>> THEN <<>>
    ELSE LET i == Head(list)
             rest == fixed_list(Tail(list))
         IN IF i.kind = "Text"
            THEN LET s == trim_end(trim_start(i.text))
                 IN IF s # <<>> THEN <<[i EXCEPT !.text = s]>> \o rest ELSE rest
            ELSE <<i>> \o rest

----------------------------------------------------------------------------
(* Attribute. *)

from_name_and_str_values(name, values) ==
    [name |-> name, values |-> SplitWhitespace(values)]

RECURSIVE values_len(_)
\* the `l` accumulated by values_to_string: each token's length plus one
values_len(values) ==
    IF values = <<>> THEN 0 ELSE Len(Head(values)) + 1 + values_len(Tail(values))

\* A String standing for a panic of the call that was to return it.
Panic == <<"!panic">>

RECURSIVE JoinValues(_)
\* the `while` loop of values_to_string
JoinValues(values) ==
    IF values = <<>> THEN <<>>
    ELSE IF Len(values) = 1 THEN Head(values)
    ELSE Head(values) \o <<" ">> \o JoinValues(Tail(values))

\* `l - 1` is computed in usize: with l = 0 a debug build panics on the
\* subtraction and a release build asks String::with_capacity for usize::MAX
\* bytes, which panics with a capacity overflow.
values_to_string(attr) ==
    IF values_len(attr.values) - 1 < 0 THEN Panic ELSE JoinValues(attr.values)

----------------------------------------------------------------------------
(* Node, NodeAccess and the Arc allocations. *)

MkNode(start, text, end, children) ==
    [start |-> start, text |-> text, end |-> end, children |-> children]

\* Node::default
EmptyNode == MkNode(None, None, None, <<>>)

FreeCell == [node |-> None, rc |-> 0]

\* The lowest free index of the allocations, or a new one.
FreshPtr(hp) ==
    IF \E p \in 1..Len(hp) : hp[p] = FreeCell
    THEN CHOOSE p \in 1..Len(hp) : hp[p] = FreeCell /\ \A q \in 1..(p - 1) : hp[q] # FreeCell
    ELSE Len(hp) + 1

\* Arc::new(node): the heap with the new allocation, strong count 1
ArcNew(hp, node) ==
    LET p == FreshPtr(hp)
        cell == [node |-> Some(node), rc |-> 1]
    IN IF p > Len(hp) THEN Append(hp, cell) ELSE [hp EXCEPT ![p] = cell]

new_owned(node) == [kind |-> "Owned", node |-> Some(node), ptr |-> 0]

\* NodeAccess::new_shared: the handle only; ArcNew makes the allocation
new_shared(hp) == [kind |-> "Sharable", node |-> None, ptr |-> FreshPtr(hp)]

\* Deref for NodeAccess
Deref(hp, na) == IF na.kind = "Owned" THEN Unwrap(na.node) ELSE Unwrap(hp[na.ptr].node)

RECURSIVE iter_to_owned(_)
iter_to_owned(list) ==
    IF list = <<>> THEN <<>> ELSE <<new_owned(Head(list))>> \o iter_to_owned(Tail(list))

RECURSIVE iter_to_shared(_, _)
\* returns the children and the heap with one new allocation per child
iter_to_shared(list, hp) ==
    IF list = <<>> THEN [children |-> <<>>, heap |-> hp]
    ELSE LET na == new_shared(hp)
             r == iter_to_shared(Tail(list), ArcNew(hp, Head(list)))
         IN [children |-> <<na>> \o r.children, heap |-> r.heap]

\* an iter_to that stores every child Owned, whatever the setting
iter_to_ignoring_type(children_type, list, hp) == [children |-> iter_to_owned(list), heap |-> hp]

iter_to(children_type, list, hp) ==
    IF children_type = "Owned"
    THEN [children |-> iter_to_owned(list), heap |-> hp]
    ELSE iter_to_shared(list, hp)

----------------------------------------------------------------------------
(* Attribute operations of Node. *)

\* Node::attribute_by_name: the first attribute named key, as an Option
attribute_by_name(node, key) ==
    IF IsSome(node.start) /\ \E i \in 1..Len(Unwrap(node.start).attrs) : Unwrap(node.start).attrs[i].name = key
    THEN LET attrs == Unwrap(node.start).attrs
             i == CHOOSE i \in 1..Len(attrs) :
                      attrs[i].name = key /\ \A j \in 1..(i - 1) : attrs[j].name # key
         IN Some(attrs[i])
    ELSE None

\* an overwrite that pushes the attribute without looking for its name
overwrite_attribute_push(node, attr) ==
    IF node.start = None THEN node
    ELSE [node EXCEPT !.start[1].attrs = Append(@, attr)]

\* Node::overwrite_attribute: the node afterwards
overwrite_attribute(node, attr) ==
    IF node.start = None THEN node
    ELSE LET attrs == Unwrap(node.start).attrs
         IN IF \E i \in 1..Len(attrs) : attrs[i].name = attr.name
            THEN LET i == CHOOSE i \in 1..Len(attrs) :
                              attrs[i].name = attr.name /\ \A j \in 1..(i - 1) : attrs[j].name # attr.name
                 IN [node EXCEPT !.start[1].attrs[i].values = attr.values]
            ELSE [node EXCEPT !.start[1].attrs = Append(attrs, attr)]

\* Node::put_attribute: the Result (ok, or the rejected attribute) and the node afterwards
put_attribute(node, attr) ==
    IF IsSome(attribute_by_name(node, attr.name))
    THEN [ok |-> FALSE, err |-> Some(attr), node |-> node]
    ELSE [ok |-> TRUE, err |-> None, node |-> overwrite_attribute(node, attr)]

----------------------------------------------------------------------------
(* NodeAccess: equality, try_mut, clone, conversions and drop.           *)

RECURSIVE NodeAccessEq_same_variant(_, _)
\* a comparison that takes two Sharable handles for equal whatever they point to
NodeAccessEq_same_variant(a, b) ==
    IF a.kind # b.kind THEN FALSE
    ELSE IF a.kind = "Owned"
         THEN LET n == Unwrap(a.node)
                  o == Unwrap(b.node)
              IN /\ n.start = o.start
                 /\ n.text = o.text
                 /\ n.end = o.end
                 /\ Len(n.children) = Len(o.children)
                 /\ \A i \in 1..Len(n.children) :
                        NodeAccessEq_same_variant(n.children[i], o.children[i])
         ELSE TRUE

\* a comparison that does not look at the children of an Owned node
NodeAccessEq_shallow(a, b) ==
    IF a.kind # b.kind THEN FALSE
    ELSE IF a.kind = "Owned"
         THEN LET n == Unwrap(a.node)
                  o == Unwrap(b.node)
              IN /\ n.start = o.start
                 /\ n.text = o.text
                 /\ n.end = o.end
                 /\ Len(n.children) = Len(o.children)
         ELSE a.ptr = b.ptr

RECURSIVE NodeAccessEq(_, _)
\* impl PartialEq for NodeAccess, with the derived PartialEq of Node and Children
NodeAccessEq(a, b) ==
    IF a.kind # b.kind THEN FALSE
    ELSE IF a.kind = "Owned"
         THEN LET n == Unwrap(a.node)
                  o == Unwrap(b.node)
              IN /\ n.start = o.start
                 /\ n.text = o.text
                 /\ n.end = o.end
                 /\ Len(n.children) = Len(o.children)
                 /\ \A i \in 1..Len(n.children) : NodeAccessEq(n.children[i], o.children[i])
         ELSE a.ptr = b.ptr

\* a guard that hands out mutable access whatever the strong count
try_mut_unguarded(na, hp) == TRUE

\* NodeAccess::try_mut returns Some: Arc::get_mut needs a strong count of 1
try_mut(na, hp) == IF na.kind = "Owned" THEN TRUE ELSE hp[na.ptr].rc = 1

RECURSIVE na_clone(_, _)
RECURSIVE children_clone(_, _)

\* the derived Clone of Children: every NodeAccess of the Vec is cloned
children_clone(children, hp) ==
    IF children = <<>> THEN [children |-> <<>>, heap |-> hp]
    ELSE LET c == na_clone(Head(children), hp)
             rest == children_clone(Tail(children), c.heap)
         IN [children |-> <<c.na>> \o rest.children, heap |-> rest.heap]

\* the derived Clone of Node
node_clone(node, hp) ==
    LET r == children_clone(node.children, hp)
    IN [node |-> [node EXCEPT !.children = r.children], heap |-> r.heap]

\* the derived Clone of NodeAccess: an Owned node is copied, an Arc is shared
na_clone(na, hp) ==
    IF na.kind = "Sharable"
    THEN [na |-> na, heap |-> [hp EXCEPT ![na.ptr].rc = @ + 1]]
    ELSE LET r == node_clone(Unwrap(na.node), hp)
         IN [na |-> new_owned(r.node), heap |-> r.heap]

\* NodeAccess::to_sharable
to_sharable(na, hp) ==
    IF na.kind = "Owned"
    THEN LET r == node_clone(Unwrap(na.node), hp)
         IN [na |-> new_shared(r.heap), heap |-> ArcNew(r.heap, r.node)]
    ELSE na_clone(na, hp)

\* NodeAccess::to_owned
to_owned(na, hp) ==
    LET r == node_clone(Deref(hp, na), hp)
    IN [na |-> new_owned(r.node), heap |-> r.heap]

RECURSIVE drop_na(_, _)
RECURSIVE drop_children(_, _)

\* dropping a Vec<NodeAccess>
drop_children(children, hp) ==
    IF children = <<>> THEN hp ELSE drop_children(Tail(children), drop_na(Head(children), hp))

\* dropping a NodeAccess: the last handle of an Arc frees the Node and drops its children
drop_na(na, hp) ==
    IF na.kind = "Owned" THEN drop_children(Unwrap(na.node).children, hp)
    ELSE IF hp[na.ptr].rc > 1 THEN [hp EXCEPT ![na.ptr].rc = @ - 1]
    ELSE drop_children(Unwrap(hp[na.ptr].node).children, [hp EXCEPT ![na.ptr] = FreeCell])

----------------------------------------------------------------------------
(* Tree builder: next_node of Node::from_html.  The cursor `iter` is the   *)
(* index of the next event; every call returns the node, the cursor after  *)
(* the events it consumed, and the allocations.                            *)

RECURSIVE ParseAttrs(_)
\* the `for attr in e.attributes()` loop of the Start branch
ParseAttrs(raw) ==
    IF raw = <<>> THEN <<>>
    ELSE <<from_name_and_str_values(Head(raw).key, Head(raw).value)>> \o ParseAttrs(Tail(raw))

\* the provisional text of a Start frame: the peek after the Start event
read_text(ev, pos) ==
    IF pos <= Len(ev) /\ ev[pos].kind = "Text"
    THEN [text |-> Some(ev[pos].text), pos |-> pos + 1]
    ELSE [text |-> None, pos |-> pos]

\* place_text hoisting only on all_text_separately, whatever the children
place_text_ignoring_children(text, children, st) ==
    IF IsSome(text) /\ st.all_text_separately
    THEN [text |-> None, children |-> <<MkNode(None, text, None, <<>>)>> \o children]
    ELSE [text |-> text, children |-> children]

\* place_text without the `text = None` after the hoist
place_text_keeping_text(text, children, st) ==
    IF IsSome(text) /\ (children # <<>> \/ st.all_text_separately)
    THEN [text |-> text, children |-> <<MkNode(None, text, None, <<>>)>> \o children]
    ELSE [text |-> text, children |-> children]

\* the placement of the provisional text once the children are collected
place_text(text, children, st) ==
    IF IsSome(text) /\ (children # <<>> \/ st.all_text_separately)
    THEN [text |-> None, children |-> <<MkNode(None, text, None, <<>>)>> \o children]
    ELSE [text |-> text, children |-> children]

\* match_end without the comparison of the names
match_end_any_name(ev, pos, name) ==
    IF pos > Len(ev) THEN [end |-> None, pos |-> pos]
    ELSE IF ev[pos].kind = "End"
         THEN [end |-> Some(ev[pos].name), pos |-> pos + 1]
         ELSE [end |-> None, pos |-> pos]

\* the closing tag of a Start frame: consumed only when it is an End event
\* with the name of the opening tag
match_end(ev, pos, name) ==
    IF pos > Len(ev) THEN [end |-> None, pos |-> pos]
    ELSE IF ev[pos].kind = "End" /\ ev[pos].name = name
         THEN [end |-> Some(ev[pos].name), pos |-> pos + 1]
         ELSE [end |-> None, pos |-> pos]

RECURSIVE next_node(_, _, _, _)
RECURSIVE collect_children(_, _, _, _)

\* a Start frame that leaves its `loop` after the first child
collect_children_one(ev, pos, st, hp) ==
    LET child == next_node(ev, pos, st, hp)
    IN IF IsSome(child.node)
       THEN [children |-> <<Unwrap(child.node)>>, pos |-> child.pos, heap |-> child.heap]
       ELSE [children |-> <<>>, pos |-> child.pos, heap |-> child.heap]

\* the `loop` of a Start frame that calls next_node until it returns None
collect_children(ev, pos, st, hp) ==
    LET child == next_node(ev, pos, st, hp)
    IN IF IsSome(child.node)
       THEN LET rest == collect_children(ev, child.pos, st, child.heap)
            IN [children |-> <<Unwrap(child.node)>> \o rest.children,
                pos |-> rest.pos, heap |-> rest.heap]
       ELSE [children |-> <<>>, pos |-> child.pos, heap |-> child.heap]

\* the Start branch of next_node
start_frame(ev, pos, st, hp) ==
    LET e == ev[pos]
        start == [empty |-> FALSE, name |-> e.name, attrs |-> ParseAttrs(e.attrs)]
        t == read_text(ev, pos + 1)
        c == collect_children(ev, t.pos, st, hp)
        placed == place_text(t.text, c.children, st)
        wrapped == iter_to(st.children_type, placed.children, c.heap)
        end == match_end(ev, c.pos, start.name)
    IN [node |-> Some(MkNode(Some(start), placed.text, end.end, wrapped.children)),
        pos |-> end.pos, heap |-> wrapped.heap]

next_node(ev, pos, st, hp) ==
    IF pos > Len(ev) THEN [node |-> None, pos |-> pos, heap |-> hp]
    ELSE CASE ev[pos].kind = "Start" -> start_frame(ev, pos, st, hp)
           [] ev[pos].kind = "Text" ->
                [node |-> Some(MkNode(None, Some(ev[pos].text), None, <<>>)),
                 pos |-> pos + 1, heap |-> hp]
           [] ev[pos].kind = "Empty" ->
                [node |-> Some(MkNode(Some([empty |-> TRUE, name |-> ev[pos].name, attrs |-> <<>>]),
                                      None, None, <<>>)),
                 pos |-> pos + 1, heap |-> hp]
           [] OTHER -> [node |-> None, pos |-> pos, heap |-> hp]

\* an end of from_html that returns a root for every input
wrap_root_always(list, st, hp) ==
    LET wrapped == iter_to(st.children_type, list, hp)
    IN [result |-> Some(MkNode(None, None, None, wrapped.children)), heap |-> wrapped.heap]

\* the end of from_html: the top-level nodes become the children of the root
wrap_root(list, st, hp) ==
    LET wrapped == iter_to(st.children_type, list, hp)
    IN IF wrapped.children = <<>>
       THEN [result |-> None, heap |-> wrapped.heap]
       ELSE [result |-> Some(MkNode(None, None, None, wrapped.children)), heap |-> wrapped.heap]

RECURSIVE top_loop(_, _, _, _)
\* the top-level `loop` of from_html
top_loop(ev, pos, st, hp) ==
    LET node == next_node(ev, pos, st, hp)
    IN IF IsSome(node.node)
       THEN LET rest == top_loop(ev, node.pos, st, node.heap)
            IN [nodes |-> <<Unwrap(node.node)>> \o rest.nodes, pos |-> rest.pos, heap |-> rest.heap]
       ELSE [nodes |-> <<>>, pos |-> node.pos, heap |-> node.heap]

\* Node::from_html on a collected event list
from_html(list, st, hp) ==
    LET loop == top_loop(fixed_list(list), 1, st, hp)
    IN wrap_root(loop.nodes, st, loop.heap)

----------------------------------------------------------------------------
(* Serializer: Node::to_html.  The String is a sequence of characters and  *)
(* name atoms.                                                             *)

RECURSIVE AttrsHtml(_)
\* the `for attr in attrs` loop of to_html
AttrsHtml(attrs) ==
    IF attrs = <<>> THEN <<>>
    ELSE LET v == values_to_string(Head(attrs))
             rest == AttrsHtml(Tail(attrs))
         IN IF v = Panic \/ rest = Panic THEN Panic
            ELSE <<" ", Head(attrs).name, "=", "\"">> \o v \o <<"\"">> \o rest

RECURSIVE to_html(_, _)
RECURSIVE ChildrenHtml(_, _)

\* the `for child in self.children.iter()` loop of to_html
ChildrenHtml(children, hp) ==
    IF children = <<>> THEN <<>>
    ELSE LET c == to_html(Deref(hp, Head(children)), hp)
             rest == ChildrenHtml(Tail(children), hp)
         IN IF c = Panic \/ rest = Panic THEN Panic ELSE c \o rest

to_html(node, hp) ==
    LET attrs == IF IsSome(node.start) THEN AttrsHtml(Unwrap(node.start).attrs) ELSE <<>>
        open == IF IsSome(node.start)
                THEN <<"<", Unwrap(node.start).name>> \o attrs
                     \o (IF Unwrap(node.start).empty THEN <<"/">> ELSE <<>>) \o <<">">>
                ELSE <<>>
        text == IF IsSome(node.text) THEN Unwrap(node.text) ELSE <<>>
        kids == ChildrenHtml(node.children, hp)
        close == IF IsSome(node.end) THEN <<"<", "/", Unwrap(node.end), ">">> ELSE <<>>
    IN IF attrs = Panic \/ kids = Panic THEN Panic ELSE open \o text \o kids \o close

----------------------------------------------------------------------------
(* Inputs of from_html: every event list of at most MaxLen events over a   *)
(* small alphabet, and every LoadSettings.                                 *)

Ev(kind, name, attrs, text) == [kind |-> kind, name |-> name, attrs |-> attrs, text |-> text]

\* k="v  w": a raw attribute value of two tokens separated by two spaces
AttrK == [key |-> "k", value |-> <<"v", " ", " ", "w">>]

Alphabet ==
    { Ev("Start", "a", <<>>, <<>>), Ev("Start", "b", <<>>, <<>>), Ev("Start", "a", <<AttrK>>, <<>>),
      Ev("End", "a", <<>>, <<>>), Ev("End", "b", <<>>, <<>>),
      Ev("Empty", "a", <<>>, <<>>), Ev("Empty", "a", <<AttrK>>, <<>>),
      Ev("Text", "", <<>>, <<"x">>), Ev("Text", "", <<>>, <<"\n", " ">>) }

EventLists == UNION { [1..n -> Alphabet] : n \in 0..MaxLen }

Settings == [all_text_separately : BOOLEAN, children_type : {"Owned", "Sharable"}]

\* LoadSettings::default
DefaultSettings == [all_text_separately |-> TRUE, children_type |-> "Owned"]

----------------------------------------------------------------------------
(* SpecBuild: one call of from_html, its top-level loop taken step by      *)
(* step, followed by to_html on the returned root.                         *)

BuildIdle ==
    /\ events = <<>> /\ settings = DefaultSettings /\ fixed = <<>> /\ iter = 1
    /\ nodes = <<>> /\ result = None /\ html = <<>>

NoPlace == [slot |-> 0, path |-> <<>>]
NoCall == [op |-> "none", src |-> NoPlace, dst |-> 0, ok |-> TRUE]

OwnIdle == slots = <<>> /\ origin = <<>> /\ last = NoCall

NoAttr == [name |-> "", values |-> <<>>]
NoAttrCall == [op |-> "none", attr |-> NoAttr, ok |-> TRUE, err |-> None]

AttrIdle == tnode = EmptyNode /\ tret = NoAttrCall

NoCriteria == [key |-> None, value |-> None, value_part |-> None]
\* a returned list of fetch, or the panic of the call
Fetched(list) == [panic |-> FALSE, list |-> list]
FetchPanic == [panic |-> TRUE, list |-> <<>>]
FetchIdle == criteria = NoCriteria /\ found = Fetched(<<>>)

ValIdle == vraw = <<>> /\ vret = <<>>

InitBuild ==
    /\ pc = "collected"
    /\ events \in EventLists
    /\ settings \in Settings
    /\ fixed = <<>> /\ iter = 1 /\ nodes = <<>> /\ result = None /\ html = <<>>
    /\ heap = <<>>
    /\ OwnIdle /\ AttrIdle /\ FetchIdle /\ ValIdle

\* the `fixed_list` block: the events are normalized before the builder runs
Normalize ==
    /\ pc = "collected"
    /\ fixed' = fixed_list(events)
    /\ iter' = 1
    /\ pc' = "loop"
    /\ UNCHANGED <<events, settings, nodes, result, html, heap, ownVars, attrVars, fetchVars, valVars>>

\* one turn of the top-level loop that gets a node
LoopNode ==
    /\ pc = "loop"
    /\ LET node == next_node(fixed, iter, settings, heap)
       IN /\ IsSome(node.node)
          /\ nodes' = Append(nodes, Unwrap(node.node))
          /\ iter' = node.pos
          /\ heap' = node.heap
    /\ UNCHANGED <<pc, events, settings, fixed, result, html, ownVars, attrVars, fetchVars, valVars>>

\* the turn that gets None: the loop breaks and from_html returns
LoopBreak ==
    /\ pc = "loop"
    /\ LET node == next_node(fixed, iter, settings, heap)
           ret == wrap_root(nodes, settings, heap)
       IN /\ ~IsSome(node.node)
          /\ result' = ret.result
          /\ heap' = ret.heap
    /\ pc' = "returned"
    /\ UNCHANGED <<events, settings, fixed, iter, nodes, html, ownVars, attrVars, fetchVars, valVars>>

\* the caller serializes the returned root
ToHtml ==
    /\ pc = "returned"
    /\ IsSome(result)
    /\ html' = to_html(Unwrap(result), heap)
    /\ pc' = "serialized"
    /\ UNCHANGED <<events, settings, fixed, iter, nodes, result, heap, ownVars, attrVars, fetchVars, valVars>>

NextBuild == Normalize \/ LoopNode \/ LoopBreak \/ ToHtml

SpecBuild == InitBuild /\ [][NextBuild]_vars

\* The stepwise loop returns what from_html returns.
BuildAgrees ==
    pc \in {"returned", "serialized"} =>
        LET r == from_html(events, settings, <<>>)
        IN result = r.result /\ heap = r.heap

----------------------------------------------------------------------------
(* Properties of the builder and the serializer, checked under SpecBuild.   *)

RECURSIVE Descendants(_, _)
\* every node below `node`, through Owned and Sharable children alike
Descendants(node, hp) ==
    UNION { {Deref(hp, node.children[i])} \cup Descendants(Deref(hp, node.children[i]), hp) :
            i \in 1..Len(node.children) }

RECURSIVE Nested(_, _)
\* the event list is well formed: every End closes the innermost open Start
Nested(ev, open) ==
    IF ev = <<>> THEN open = <<>>
    ELSE CASE Head(ev).kind = "Start" -> Nested(Tail(ev), <<Head(ev).name>> \o open)
           [] Head(ev).kind = "End" ->
                open # <<>> /\ Head(open) = Head(ev).name /\ Nested(Tail(ev), Tail(open))
           [] OTHER -> Nested(Tail(ev), open)

WellFormed(ev) == Nested(ev, <<>>)

RECURSIVE SingleSpaced(_)
\* value tokens separated by single spaces
SingleSpaced(tokens) ==
    IF tokens = <<>> THEN <<>>
    ELSE IF Len(tokens) = 1 THEN Head(tokens)
    ELSE Head(tokens) \o <<" ">> \o SingleSpaced(Tail(tokens))

RECURSIVE MarkupOfAttrs(_)
MarkupOfAttrs(raw) ==
    IF raw = <<>> THEN <<>>
    ELSE <<" ", Head(raw).key, "=", "\"">> \o SingleSpaced(SplitWhitespace(Head(raw).value))
         \o <<"\"">> \o MarkupOfAttrs(Tail(raw))

RECURSIVE MarkupOf(_)
\* the markup of an event list: its tags with their attributes and its texts, in order
MarkupOf(ev) ==
    IF ev = <<>> THEN <<>>
    ELSE LET e == Head(ev)
         IN (CASE e.kind = "Start" -> <<"<", e.name>> \o MarkupOfAttrs(e.attrs) \o <<">">>
               [] e.kind = "Empty" -> <<"<", e.name>> \o MarkupOfAttrs(e.attrs) \o <<"/", ">">>
               [] e.kind = "End" -> <<"<", "/", e.name, ">">>
               [] OTHER -> e.text)
            \o MarkupOf(Tail(ev))

\* C1 (as claimed): for a well-formed event list, to_html of the tree built by
\* from_html is the markup of the normalized events: the same tags with their
\* names, attributes, value tokens and self-closing flag, and the same texts,
\* in the same order.
C1_RoundTrip ==
    (pc = "serialized" /\ WellFormed(fixed)) => html = MarkupOf(fixed)

\* The round trip of C1 does hold when no self-closing tag carries attributes.
RoundTripNoEmptyAttrs ==
    (/\ pc = "serialized"
     /\ WellFormed(fixed)
     /\ \A i \in 1..Len(fixed) : fixed[i].kind = "Empty" => fixed[i].attrs = <<>>)
        => html = MarkupOf(fixed)

\* The frame of next_node that starts at the Start event i: the children loop's
\* outcome and the frame's outcome.
FrameChildren(i) == collect_children(fixed, read_text(fixed, i + 1).pos, settings, <<>>)
Frame(i) == next_node(fixed, i, settings, <<>>)
IsStart(i) == i \in 1..Len(fixed) /\ fixed[i].kind = "Start"
\* the event at the cursor k is an End event named as the Start event i
ClosedAt(i, k) == k <= Len(fixed) /\ fixed[k].kind = "End" /\ fixed[k].name = fixed[i].name
\* the frame of j runs inside the children loop of the frame of i
Encloses(i, j) == read_text(fixed, i + 1).pos <= j /\ j < FrameChildren(i).pos

\* C2: in every Start frame the event after the collected children is consumed
\* and stored as `end` iff it is an End event with the opening tag's name;
\* otherwise `end` is absent and the cursor stays where the children loop left
\* it, and the innermost enclosing frame with the name of that End event takes
\* it as its own `end`.
C2_EndMatching ==
    pc # "collected" =>
        \A i \in 1..Len(fixed) : IsStart(i) =>
            LET k == FrameChildren(i).pos
                f == Frame(i)
            IN /\ IsSome(f.node)
               /\ IsSome(Unwrap(f.node).end) <=> ClosedAt(i, k)
               /\ ClosedAt(i, k) => Unwrap(f.node).end = Some(fixed[k].name) /\ f.pos = k + 1
               /\ ~ClosedAt(i, k) => f.pos = k
               /\ \A j \in 1..Len(fixed) :
                    (/\ IsStart(j) /\ Encloses(i, j)
                     /\ Unwrap(Frame(j).node).end = None
                     /\ ClosedAt(i, Frame(j).pos)
                     /\ \A m \in (i + 1)..(j - 1) :
                            ~(IsStart(m) /\ Encloses(m, j) /\ fixed[m].name = fixed[i].name))
                    => (k = Frame(j).pos /\ Unwrap(f.node).end = Some(fixed[i].name)
                        /\ f.pos = Frame(j).pos + 1)

\* C2 witness: an inner frame has left an End event of another name, and the
\* enclosing frame of that name has taken it.
C2_Witness ==
    /\ pc = "returned"
    /\ \E i, j \in 1..Len(fixed) :
        /\ IsStart(i) /\ IsStart(j) /\ Encloses(i, j)
        /\ fixed[i].name # fixed[j].name
        /\ Unwrap(Frame(j).node).end = None
        /\ Frame(j).pos <= Len(fixed) /\ fixed[Frame(j).pos].kind = "End"
        /\ Unwrap(Frame(i).node).end = Some(fixed[i].name)
        /\ Frame(i).pos = Frame(j).pos + 1

\* C3: a Text event right after a Start event becomes the first child, a
\* text-only node, when the element has another child or all_text_separately
\* is set, and the element's `text` is then absent; otherwise it is the
\* element's `text` and the element has no children.
C3_TextPlacement ==
    pc # "collected" =>
        \A i \in 1..Len(fixed) :
            (IsStart(i) /\ i + 1 <= Len(fixed) /\ fixed[i + 1].kind = "Text") =>
                LET f == Frame(i)
                    n == Unwrap(f.node)
                    others == FrameChildren(i).children
                IN IF others # <<>> \/ settings.all_text_separately
                   THEN /\ n.text = None
                        /\ Len(n.children) = Len(others) + 1
                        /\ n.children[1].kind =
                               (IF settings.children_type = "Owned" THEN "Owned" ELSE "Sharable")
                        /\ Deref(f.heap, n.children[1])
                               = MkNode(None, Some(fixed[i + 1].text), None, <<>>)
                        /\ \A c \in 1..Len(others) : Deref(f.heap, n.children[c + 1]) = others[c]
                   ELSE n.text = Some(fixed[i + 1].text) /\ n.children = <<>>

\* C3 witnesses: the text was hoisted only because another child follows, and
\* the text was kept on the element.
C3_Witness ==
    /\ pc = "returned"
    /\ ~settings.all_text_separately
    /\ \E i, j \in 1..Len(fixed) :
        /\ IsStart(i) /\ i + 1 <= Len(fixed) /\ fixed[i + 1].kind = "Text"
        /\ FrameChildren(i).children # <<>>
        /\ Unwrap(Frame(i).node).text = None
        /\ IsStart(j) /\ j + 1 <= Len(fixed) /\ fixed[j + 1].kind = "Text"
        /\ Unwrap(Frame(j).node).text = Some(fixed[j + 1].text)

\* C4: in every returned tree no node has both a text and children; the root
\* has neither start nor text; every other node is a text leaf (text present,
\* start and end absent, no children) or an element (start present).
C4_Shape ==
    (pc \in {"returned", "serialized"} /\ IsSome(result)) =>
        LET root == Unwrap(result)
        IN /\ root.start = None /\ root.text = None /\ root.end = None
           /\ \A n \in {root} \cup Descendants(root, heap) :
                ~(IsSome(n.text) /\ n.children # <<>>)
           /\ \A n \in Descendants(root, heap) :
                \/ IsSome(n.start)
                \/ n.start = None /\ IsSome(n.text) /\ n.end = None /\ n.children = <<>>

\* C4 witness: a returned tree holding an element with a hoisted text and
\* another child, and an element that keeps its text.
C4_Witness ==
    /\ pc = "returned" /\ IsSome(result)
    /\ \E n, m \in Descendants(Unwrap(result), heap) :
        /\ IsSome(n.start) /\ Len(n.children) >= 2
        /\ Deref(heap, n.children[1]).start = None
        /\ IsSome(m.start) /\ IsSome(m.text)

----------------------------------------------------------------------------
(* SpecOwn: a caller builds trees, clones, converts and drops handles, and  *)
(* mutates nodes through try_mut.  Every value it obtains goes to a new     *)
(* variable; a root returned by from_html is held as                        *)
(* NodeAccess::Owned(root).                                                 *)

Slots == 1..Len(slots)

\* <a k="v">x</a> and <a><b k="v"></b></a>
AttrV == [key |-> "k", value |-> <<"v">>]
OwnMarkups ==
    { <<Ev("Start", "a", <<AttrV>>, <<>>), Ev("Text", "", <<>>, <<"x">>), Ev("End", "a", <<>>, <<>>)>>,
      <<Ev("Start", "a", <<>>, <<>>), Ev("Start", "b", <<AttrV>>, <<>>),
        Ev("End", "b", <<>>, <<>>), Ev("End", "a", <<>>, <<>>)>> }

\* the settings of the caller: the default, and the default with sharable_children()
OwnSettings == { st \in Settings : st.all_text_separately }

\* the attribute written by the caller once try_mut has given it the node
EditAttr == [name |-> "k", values |-> << <<"e">> >>]

RECURSIVE PathsIn(_, _, _)
\* the paths of child positions leading from na to a node at most depth levels
\* below it, through the first MaxKids children of every node
PathsIn(na, hp, depth) ==
    {<<>>} \cup
    (IF depth = 0 THEN {}
     ELSE UNION { { <<i>> \o q : q \in PathsIn(Deref(hp, na).children[i], hp, depth - 1) } :
                  i \in { k \in 1..MaxKids : k <= Len(Deref(hp, na).children) } })

RECURSIVE NAAt(_, _, _)
\* the NodeAccess reached from na through children().get(i) along path
NAAt(na, path, hp) ==
    IF path = <<>> THEN na ELSE NAAt(Deref(hp, na).children[Head(path)], Tail(path), hp)

\* a place: a variable of the caller or a descendant of it
Places ==
    UNION { { [slot |-> v, path |-> q] : q \in PathsIn(Unwrap(slots[v]), heap, MaxDepth) } :
            v \in { w \in Slots : IsSome(slots[w]) } }

At(pl) == NAAt(Unwrap(slots[pl.slot]), pl.path, heap)

\* the caller reaches &mut NodeAccess at pl: its own variable, or through
\* try_mut and children_mut().get_mut(i) on every node above it
MutChain(pl) ==
    \A n \in 0..(Len(pl.path) - 1) :
        try_mut(NAAt(Unwrap(slots[pl.slot]), SubSeq(pl.path, 1, n), heap), heap)

RECURSIVE SetNodeAt(_, _, _, _)
\* a write of the Node `new` through the &mut Node reached along path
SetNodeAt(na, path, new, hp) ==
    IF path = <<>>
    THEN IF na.kind = "Owned"
         THEN [na |-> new_owned(new), heap |-> hp]
         ELSE [na |-> na, heap |-> [hp EXCEPT ![na.ptr].node = Some(new)]]
    ELSE LET n == Deref(hp, na)
             r == SetNodeAt(n.children[Head(path)], Tail(path), new, hp)
             n2 == [n EXCEPT !.children[Head(path)] = r.na]
         IN IF na.kind = "Owned"
            THEN [na |-> new_owned(n2), heap |-> r.heap]
            ELSE [na |-> na, heap |-> [r.heap EXCEPT ![na.ptr].node = Some(n2)]]

Call(op, src, dst, ok) == [op |-> op, src |-> src, dst |-> dst, ok |-> ok]

InitOwn ==
    /\ pc = "caller"
    /\ heap = <<>>
    /\ slots = <<>>
    /\ origin = <<>>
    /\ last = NoCall
    /\ BuildIdle /\ AttrIdle /\ FetchIdle /\ ValIdle

\* let v = NodeAccess::Owned(Node::from_html(m, &st).unwrap().unwrap())
CallFromHtml(m, st) ==
    /\ Len(slots) < MaxVars
    /\ LET r == from_html(m, st, heap)
       IN /\ IsSome(r.result)
          /\ slots' = Append(slots, Some(new_owned(Unwrap(r.result))))
          /\ heap' = r.heap
    /\ origin' = Append(origin, Some([markup |-> m, settings |-> st]))
    /\ last' = NoCall
    /\ UNCHANGED <<pc, buildVars, attrVars, fetchVars, valVars>>

\* let v = pl.clone()
CallClone(pl) ==
    /\ Len(slots) < MaxVars
    /\ LET r == na_clone(At(pl), heap)
       IN /\ slots' = Append(slots, Some(r.na))
          /\ heap' = r.heap
    /\ origin' = Append(origin, None)
    /\ last' = Call("clone", pl, Len(slots) + 1, TRUE)
    /\ UNCHANGED <<pc, buildVars, attrVars, fetchVars, valVars>>

\* let v = pl.to_sharable()
CallToSharable(pl) ==
    /\ Len(slots) < MaxVars
    /\ LET r == to_sharable(At(pl), heap)
       IN /\ slots' = Append(slots, Some(r.na))
          /\ heap' = r.heap
    /\ origin' = Append(origin, None)
    /\ last' = Call("to_sharable", pl, Len(slots) + 1, TRUE)
    /\ UNCHANGED <<pc, buildVars, attrVars, fetchVars, valVars>>

\* let v = pl.to_owned()
CallToOwned(pl) ==
    /\ Len(slots) < MaxVars
    /\ LET r == to_owned(At(pl), heap)
       IN /\ slots' = Append(slots, Some(r.na))
          /\ heap' = r.heap
    /\ origin' = Append(origin, None)
    /\ last' = Call("to_owned", pl, Len(slots) + 1, TRUE)
    /\ UNCHANGED <<pc, buildVars, attrVars, fetchVars, valVars>>

\* drop(s)
CallDrop(s) ==
    /\ IsSome(slots[s])
    /\ heap' = drop_na(Unwrap(slots[s]), heap)
    /\ slots' = [slots EXCEPT ![s] = None]
    /\ origin' = [origin EXCEPT ![s] = None]
    /\ last' = NoCall
    /\ UNCHANGED <<pc, buildVars, attrVars, fetchVars, valVars>>

\* if let Some(node) = pl.try_mut() { node.overwrite_attribute(EditAttr) }
CallTryMut(pl) ==
    /\ MutChain(pl)
    /\ LET ok == try_mut(At(pl), heap)
           old == Deref(heap, At(pl))
           new == overwrite_attribute(old, EditAttr)
           w == SetNodeAt(Unwrap(slots[pl.slot]), pl.path, new, heap)
       IN /\ last' = Call("try_mut", pl, 0, ok)
          /\ IF ok
             THEN /\ slots' = [slots EXCEPT ![pl.slot] = Some(w.na)]
                  /\ heap' = w.heap
                  /\ origin' = IF new = old THEN origin ELSE [origin EXCEPT ![pl.slot] = None]
             ELSE UNCHANGED <<slots, heap, origin>>
    /\ UNCHANGED <<pc, buildVars, attrVars, fetchVars, valVars>>

NextOwn ==
    \/ \E m \in OwnMarkups, st \in OwnSettings : CallFromHtml(m, st)
    \/ \E pl \in Places : CallClone(pl)
    \/ \E pl \in Places : CallToSharable(pl)
    \/ \E pl \in Places : CallToOwned(pl)
    \/ \E s \in Slots : CallDrop(s)
    \/ \E pl \in Places : CallTryMut(pl)

SpecOwn == InitOwn /\ [][NextOwn]_vars

----------------------------------------------------------------------------
(* Properties of the ownership model, checked under SpecOwn.                *)

RECURSIVE RefsInNA(_, _)
RECURSIVE RefsInChildren(_, _)

\* the handles to the allocation p held in a Vec<NodeAccess>, Owned nodes included
RefsInChildren(children, p) ==
    IF children = <<>> THEN 0
    ELSE RefsInNA(Head(children), p) + RefsInChildren(Tail(children), p)

RefsInNA(na, p) ==
    IF na.kind = "Sharable" THEN (IF na.ptr = p THEN 1 ELSE 0)
    ELSE RefsInChildren(Unwrap(na.node).children, p)

RECURSIVE RefsInSlots(_, _)
RefsInSlots(vs, p) ==
    IF vs = <<>> THEN 0
    ELSE (IF IsSome(Head(vs)) THEN RefsInNA(Unwrap(Head(vs)), p) ELSE 0) + RefsInSlots(Tail(vs), p)

RECURSIVE RefsInHeap(_, _)
RefsInHeap(hp, p) ==
    IF hp = <<>> THEN 0
    ELSE (IF IsSome(Head(hp).node) THEN RefsInChildren(Unwrap(Head(hp).node).children, p) ELSE 0)
         + RefsInHeap(Tail(hp), p)

\* the number of live handles to the allocation p: in the caller's variables
\* and in the nodes kept alive by them
LiveHandles(p) == RefsInSlots(slots, p) + RefsInHeap(heap, p)

RECURSIVE ReachPtrs(_, _)
\* the allocations reachable from a NodeAccess
ReachPtrs(na, hp) ==
    (IF na.kind = "Sharable" THEN {na.ptr} ELSE {})
    \cup UNION { ReachPtrs(Deref(hp, na).children[i], hp) : i \in 1..Len(Deref(hp, na).children) }

RECURSIVE AllOwned(_)
\* no Sharable node at or below na
AllOwned(na) ==
    /\ na.kind = "Owned"
    /\ \A i \in 1..Len(Unwrap(na.node).children) : AllOwned(Unwrap(na.node).children[i])

RECURSIVE StructEq(_, _, _)
\* the Node trees of a and b are equal field by field at every depth
StructEq(a, b, hp) ==
    LET n == Deref(hp, a)
        o == Deref(hp, b)
    IN /\ n.start = o.start
       /\ n.text = o.text
       /\ n.end = o.end
       /\ Len(n.children) = Len(o.children)
       /\ \A i \in 1..Len(n.children) : StructEq(n.children[i], o.children[i], hp)

\* what the guard of try_mut is claimed to be, at the place pl
MayMutate(pl) == At(pl).kind = "Owned" \/ LiveHandles(At(pl).ptr) = 1

\* C5: try_mut on an Owned NodeAccess always gives mutable access; on a
\* Sharable one it does iff the allocation has exactly one live handle at that
\* moment, whatever clones and drops came before; a denied try_mut changes
\* nothing.
C5_MutationGuard ==
    /\ [](\A pl \in Places : try_mut(At(pl), heap) <=> MayMutate(pl))
    /\ [][last'.op = "try_mut" =>
            /\ last'.ok <=> MayMutate(last'.src)
            /\ ~last'.ok => (slots' = slots /\ heap' = heap)]_vars

\* C5 witness: a try_mut on a Sharable node with one live handle is granted
\* after a variable of the caller was dropped.
C5_Witness ==
    /\ last.op = "try_mut" /\ last.ok
    /\ At(last.src).kind = "Sharable"
    /\ LiveHandles(At(last.src).ptr) = 1
    /\ \E s \in Slots : slots[s] = None

\* C6 (as claimed): to_sharable() and to_owned() return an independent deep
\* copy: no allocation reachable from the result is reachable from the
\* receiver, and the call leaves every reference count of the receiver's tree
\* unchanged.
C6_DeepCopy ==
    [][last'.op \in {"to_sharable", "to_owned"} =>
        LET recv == NAAt(Unwrap(slots[last'.src.slot]), last'.src.path, heap)
            res == Unwrap(slots'[last'.dst])
        IN /\ ReachPtrs(recv, heap') \cap ReachPtrs(res, heap') = {}
           /\ \A p \in ReachPtrs(recv, heap) : heap'[p].rc = heap[p].rc]_vars

\* the variables s and t hold roots built by two calls of from_html with the
\* same markup and the same settings, not mutated since
SameBuild(s, t) == s # t /\ IsSome(origin[s]) /\ origin[s] = origin[t]

BuiltAs(s, children_type) == Unwrap(origin[s]).settings.children_type = children_type

\* C7: NodeAccess values of different variants are never equal; two Sharable
\* values are equal iff they are handles to one allocation, so a handle and
\* its clone are equal and Sharable nodes built independently from the same
\* markup are not; Owned nodes built independently from the same markup with
\* the Owned setting are equal.
C7_Equality ==
    /\ \A x, y \in Places :
        /\ At(x).kind # At(y).kind => ~NodeAccessEq(At(x), At(y))
        /\ (At(x).kind = "Sharable" /\ At(y).kind = "Sharable") =>
                (NodeAccessEq(At(x), At(y)) <=> At(x).ptr = At(y).ptr)
        /\ (SameBuild(x.slot, y.slot) /\ BuiltAs(x.slot, "Sharable")
            /\ x.path # <<>> /\ y.path # <<>>) => ~NodeAccessEq(At(x), At(y))
        /\ (SameBuild(x.slot, y.slot) /\ BuiltAs(x.slot, "Owned") /\ x.path = y.path)
                => NodeAccessEq(At(x), At(y))
    /\ (last.op = "clone" /\ At(last.src).kind = "Sharable")
            => NodeAccessEq(At(last.src), Unwrap(slots[last.dst]))

\* C7 witness: two roots built independently from the same markup with the
\* Sharable setting, whose first children have equal contents and are unequal.
C7_Witness ==
    \E s, t \in Slots :
        /\ SameBuild(s, t) /\ BuiltAs(s, "Sharable")
        /\ LET a == At([slot |-> s, path |-> <<1>>])
               b == At([slot |-> t, path |-> <<1>>])
           IN a.kind = "Sharable" /\ StructEq(a, b, heap) /\ ~NodeAccessEq(a, b)

\* C8 (as claimed): two Owned values are equal iff their Node trees are
\* structurally equal at every depth.
C8_OwnedEqIsStructural ==
    \A x, y \in Places :
        (At(x).kind = "Owned" /\ At(y).kind = "Owned") =>
            (NodeAccessEq(At(x), At(y)) <=> StructEq(At(x), At(y), heap))

\* C8 (amended): two equal Owned values are structurally equal, and two
\* structurally equal Owned values with no Sharable node at any depth are equal.
C8_OwnedEqAmended ==
    \A x, y \in Places :
        (At(x).kind = "Owned" /\ At(y).kind = "Owned") =>
            /\ NodeAccessEq(At(x), At(y)) => StructEq(At(x), At(y), heap)
            /\ (AllOwned(At(x)) /\ AllOwned(At(y)) /\ StructEq(At(x), At(y), heap))
                    => NodeAccessEq(At(x), At(y))

\* C8 witness: two variables hold structurally equal Owned trees with children
\* and no Sharable node, not built by the same from_html call, and are equal.
C8_Witness ==
    /\ \E s, t \in Slots :
        /\ s # t /\ IsSome(slots[s]) /\ IsSome(slots[t])
        /\ AllOwned(Unwrap(slots[s])) /\ AllOwned(Unwrap(slots[t]))
        /\ Unwrap(Unwrap(slots[s]).node).children # <<>>
        /\ StructEq(Unwrap(slots[s]), Unwrap(slots[t]), heap)
        /\ NodeAccessEq(Unwrap(slots[s]), Unwrap(slots[t]))
        /\ origin[s] # origin[t]

----------------------------------------------------------------------------
(* SpecAttr: a caller holding one Node of a loaded tree mutably applies     *)
(* put_attribute and overwrite_attribute to it.                             *)

AttrNames == {"k", "j", "m"}

\* value lists an Attribute can carry; from_name_and_str_values(name, "")
\* gives the empty one
AttrValueLists == { <<>>, << <<"e">> >>, << <<"e">>, <<"f">> >> }

AttrInputs == [name : AttrNames, values : AttrValueLists]

\* <a k="v">x</a>
AttrMarkup ==
    <<Ev("Start", "a", <<AttrV>>, <<>>), Ev("Text", "", <<>>, <<"x">>), Ev("End", "a", <<>>, <<>>)>>

\* the nodes of the tree loaded from AttrMarkup with the default settings:
\* the root (no opening tag), the element a and its text node
AttrNodes ==
    LET root == Unwrap(from_html(AttrMarkup, DefaultSettings, <<>>).result)
    IN {root} \cup Descendants(root, <<>>)

InitAttr ==
    /\ pc = "node"
    /\ heap = <<>>
    /\ tnode \in AttrNodes
    /\ tret = NoAttrCall
    /\ BuildIdle /\ OwnIdle /\ FetchIdle /\ ValIdle

\* let r = node.put_attribute(attr)
PutAttribute(attr) ==
    /\ pc = "node"
    /\ LET r == put_attribute(tnode, attr)
       IN /\ tnode' = r.node
          /\ tret' = [op |-> "put_attribute", attr |-> attr, ok |-> r.ok, err |-> r.err]
    /\ UNCHANGED <<pc, heap, buildVars, ownVars, fetchVars, valVars>>

\* node.overwrite_attribute(attr)
OverwriteAttribute(attr) ==
    /\ pc = "node"
    /\ tnode' = overwrite_attribute(tnode, attr)
    /\ tret' = [op |-> "overwrite_attribute", attr |-> attr, ok |-> TRUE, err |-> None]
    /\ UNCHANGED <<pc, heap, buildVars, ownVars, fetchVars, valVars>>

NextAttr ==
    \/ \E attr \in AttrInputs : PutAttribute(attr)
    \/ \E attr \in AttrInputs : OverwriteAttribute(attr)

SpecAttr == InitAttr /\ [][NextAttr]_vars

\* the attributes of a node, none for a node without an opening tag
AttrsOf(node) == IF IsSome(node.start) THEN Unwrap(node.start).attrs ELSE <<>>

HasAttr(node, name) == \E i \in 1..Len(AttrsOf(node)) : AttrsOf(node)[i].name = name

FirstAttr(node, name) ==
    CHOOSE i \in 1..Len(AttrsOf(node)) :
        AttrsOf(node)[i].name = name /\ \A j \in 1..(i - 1) : AttrsOf(node)[j].name # name

\* C9 (as claimed): put_attribute(attr) on any node returns the rejected
\* attribute and leaves the node unchanged if the node has an attribute of
\* that name; otherwise it returns success and attribute_by_name(attr.name)
\* then returns an attribute with attr's values.
C9_PutAttribute ==
    [][tret'.op = "put_attribute" =>
        IF HasAttr(tnode, tret'.attr.name)
        THEN ~tret'.ok /\ tret'.err = Some(tret'.attr) /\ tnode' = tnode
        ELSE /\ tret'.ok
             /\ IsSome(attribute_by_name(tnode', tret'.attr.name))
             /\ Unwrap(attribute_by_name(tnode', tret'.attr.name)).values = tret'.attr.values]_vars

\* C10: overwrite_attribute(attr) on a node with an opening tag replaces only
\* the value list of the first attribute of attr's name if there is one, all
\* other attributes keeping their number, names, order and values, and else
\* appends attr as the last attribute; on a node without an opening tag it
\* changes nothing; tag name, text, end and children never change.
C10_OverwriteAttribute ==
    [][tret'.op = "overwrite_attribute" =>
        LET attr == tret'.attr
            old == AttrsOf(tnode)
            new == AttrsOf(tnode')
        IN /\ tnode'.text = tnode.text
           /\ tnode'.end = tnode.end
           /\ tnode'.children = tnode.children
           /\ IF tnode.start = None THEN tnode' = tnode
              ELSE /\ IsSome(tnode'.start)
                   /\ Unwrap(tnode'.start).name = Unwrap(tnode.start).name
                   /\ Unwrap(tnode'.start).empty = Unwrap(tnode.start).empty
                   /\ IF HasAttr(tnode, attr.name)
                      THEN /\ Len(new) = Len(old)
                           /\ \A i \in 1..Len(old) :
                                IF i = FirstAttr(tnode, attr.name)
                                THEN new[i].name = old[i].name /\ new[i].values = attr.values
                                ELSE new[i] = old[i]
                      ELSE new = Append(old, attr)]_vars

\* C10 witness: an overwrite_attribute has set the values of the first of
\* three attributes of an element, which still carries its loaded value list
\* in no attribute, and the other two attributes follow it.
C10_Witness ==
    /\ tret.op = "overwrite_attribute"
    /\ Len(AttrsOf(tnode)) = 3
    /\ AttrsOf(tnode)[1].name = tret.attr.name
    /\ AttrsOf(tnode)[1].values = tret.attr.values
    /\ tret.attr.values # << <<"v">> >>
    /\ tnode.text = None /\ tnode.children # <<>>

----------------------------------------------------------------------------
(* ChildrenFetch::fetch.  A returned &NodeAccess is the path of child       *)
(* positions that leads to it from the node the search started at.         *)

\* check_value_criteria with the test of value_part ahead of the test of value
check_value_criteria_part_first(attr, crit) ==
    IF IsSome(crit.value_part)
    THEN IF \E i \in 1..Len(attr.values) : attr.values[i] = Unwrap(crit.value_part)
         THEN "push" ELSE "skip"
    ELSE IF IsSome(crit.value)
         THEN LET s == values_to_string(attr)
              IN IF s = Panic THEN "panic" ELSE IF s = Unwrap(crit.value) THEN "push" ELSE "skip"
         ELSE "push"

\* the closure check_value_criteria of sub: whether it pushes the child for attr
check_value_criteria(attr, crit) ==
    IF IsSome(crit.value)
    THEN LET s == values_to_string(attr)
         IN IF s = Panic THEN "panic" ELSE IF s = Unwrap(crit.value) THEN "push" ELSE "skip"
    ELSE IF IsSome(crit.value_part)
         THEN IF \E i \in 1..Len(attr.values) : attr.values[i] = Unwrap(crit.value_part)
              THEN "push" ELSE "skip"
         ELSE "push"

RECURSIVE check_attrs(_, _, _)
\* `for attr in attrs { check_value_criteria(attr) }` for the child at path
check_attrs(attrs, crit, path) ==
    IF attrs = <<>> THEN Fetched(<<>>)
    ELSE LET c == check_value_criteria(Head(attrs), crit)
         IN IF c = "panic" THEN FetchPanic
            ELSE LET rest == check_attrs(Tail(attrs), crit, path)
                 IN IF rest.panic THEN FetchPanic
                    ELSE Fetched((IF c = "push" THEN <<path>> ELSE <<>>) \o rest.list)

\* the `if let Some(key) = criteria.key { .. } else { .. }` of sub for one child
child_pushes(child, crit, path) ==
    IF IsSome(crit.key)
    THEN LET attr == attribute_by_name(child, Unwrap(crit.key))
         IN IF IsSome(attr) THEN check_attrs(<<Unwrap(attr)>>, crit, path) ELSE Fetched(<<>>)
    ELSE IF child.start = None
         THEN FetchPanic
         ELSE check_attrs(Unwrap(child.start).attrs, crit, path)

RECURSIVE fetch_children_pruning(_, _, _, _, _)
\* a loop of sub that does not search below a child it has pushed
fetch_children_pruning(children, i, crit, prefix, hp) ==
    IF i > Len(children) THEN Fetched(<<>>)
    ELSE LET child == Deref(hp, children[i])
             path == Append(prefix, i)
             own == child_pushes(child, crit, path)
         IN IF own.panic THEN FetchPanic
            ELSE LET below == IF own.list # <<>> THEN Fetched(<<>>)
                              ELSE fetch_children_pruning(child.children, 1, crit, path, hp)
                 IN IF below.panic THEN FetchPanic
                    ELSE LET rest == fetch_children_pruning(children, i + 1, crit, prefix, hp)
                         IN IF rest.panic THEN FetchPanic
                            ELSE Fetched(own.list \o below.list \o rest.list)

RECURSIVE fetch_children(_, _, _, _, _)
\* `for child in criteria.node.children.iter()` of sub, from the i-th child on
fetch_children(children, i, crit, prefix, hp) ==
    IF i > Len(children) THEN Fetched(<<>>)
    ELSE LET child == Deref(hp, children[i])
             path == Append(prefix, i)
             own == child_pushes(child, crit, path)
         IN IF own.panic THEN FetchPanic
            ELSE LET below == fetch_children(child.children, 1, crit, path, hp)
                 IN IF below.panic THEN FetchPanic
                    ELSE LET rest == fetch_children(children, i + 1, crit, prefix, hp)
                         IN IF rest.panic THEN FetchPanic
                            ELSE Fetched(own.list \o below.list \o rest.list)

\* fetch::sub
sub(node, crit, prefix, hp) == fetch_children(node.children, 1, crit, prefix, hp)

\* ChildrenFetch::fetch
fetch(node, crit, hp) == sub(node, crit, <<>>, hp)

----------------------------------------------------------------------------
(* SpecFetch: a caller loads a tree with from_html and searches it from    *)
(* the root with children_fetch() under every criteria.                    *)

\* k="vw  w", k="v" j="v" and j=""
AttrVW == [key |-> "k", value |-> <<"v", "w", " ", " ", "w">>]
AttrKV == [key |-> "k", value |-> <<"v">>]
AttrJV == [key |-> "j", value |-> <<"v">>]
AttrJ0 == [key |-> "j", value |-> <<>>]

FetchAlphabet ==
    { Ev("Start", "a", <<>>, <<>>), Ev("Start", "a", <<AttrVW>>, <<>>),
      Ev("Start", "a", <<AttrKV, AttrJV>>, <<>>), Ev("Start", "a", <<AttrJ0>>, <<>>),
      Ev("End", "a", <<>>, <<>>), Ev("Text", "", <<>>, <<"x">>) }

\* longest event list of a markup that is searched
MaxMarkup == 3

FetchMarkups == UNION { [1..n -> FetchAlphabet] : n \in 1..MaxMarkup }

FetchKeys == {None, Some("k"), Some("j")}
FetchValues == {None, Some(<<"v">>), Some(<<"v", "w", " ", "w">>)}
FetchParts == {None, Some(<<"v">>), Some(<<"w">>)}

Criteria == [key : FetchKeys, value : FetchValues, value_part : FetchParts]

\* let root = Node::from_html(m, &st).unwrap().unwrap()
InitFetch ==
    /\ pc = "loaded"
    /\ events \in FetchMarkups
    /\ settings \in Settings
    /\ IsSome(from_html(events, settings, <<>>).result)
    /\ result = from_html(events, settings, <<>>).result
    /\ heap = from_html(events, settings, <<>>).heap
    /\ fixed = <<>> /\ iter = 1 /\ nodes = <<>> /\ html = <<>>
    /\ criteria = NoCriteria /\ found = Fetched(<<>>)
    /\ OwnIdle /\ AttrIdle /\ ValIdle

\* let found = root.children_fetch()[.key(k)][.value(v)][.value_part(p)].fetch()
Fetch(crit) ==
    /\ pc = "loaded"
    /\ pc' = "fetched"
    /\ criteria' = crit
    /\ found' = fetch(Unwrap(result), crit, heap)
    /\ UNCHANGED <<heap, buildVars, ownVars, attrVars, valVars>>

NextFetch == \E crit \in Criteria : Fetch(crit)

SpecFetch == InitFetch /\ [][NextFetch]_vars

----------------------------------------------------------------------------
(* Properties of the search, checked under SpecFetch.                      *)

RECURSIVE NodeBelow(_, _, _)
\* the Node reached from node along a path of child positions
NodeBelow(node, path, hp) ==
    IF path = <<>> THEN node
    ELSE NodeBelow(Deref(hp, node.children[Head(path)]), Tail(path), hp)

RECURSIVE PreOrder(_, _, _)
\* the paths of the nodes below node, a node before its own descendants and
\* siblings in document order
PreOrder(node, prefix, hp) ==
    LET below(i) == <<Append(prefix, i)>>
                    \o PreOrder(Deref(hp, node.children[i]), Append(prefix, i), hp)
        upto[n \in 0..Len(node.children)] == IF n = 0 THEN <<>> ELSE upto[n - 1] \o below(n)
    IN upto[Len(node.children)]

\* the value tokens joined by single spaces
SpaceJoined(tokens) ==
    LET upto[n \in 0..Len(tokens)] ==
            IF n = 0 THEN <<>>
            ELSE IF n = 1 THEN tokens[1]
            ELSE upto[n - 1] \o <<" ">> \o tokens[n]
    IN upto[Len(tokens)]

\* the per-attribute match rule
AttrMatches(attr, crit) ==
    IF IsSome(crit.value) THEN SpaceJoined(attr.values) = Unwrap(crit.value)
    ELSE IF IsSome(crit.value_part)
         THEN \E i \in 1..Len(attr.values) : attr.values[i] = Unwrap(crit.value_part)
         ELSE TRUE

\* the candidate attributes of a node: the first of the name key, or all
Candidates(node, crit) ==
    IF IsSome(crit.key)
    THEN (IF HasAttr(node, Unwrap(crit.key))
          THEN {AttrsOf(node)[FirstAttr(node, Unwrap(crit.key))]} ELSE {})
    ELSE { AttrsOf(node)[i] : i \in 1..Len(AttrsOf(node)) }

NodeMatches(node, crit) == \E attr \in Candidates(node, crit) : AttrMatches(attr, crit)

Root == Unwrap(result)
FoundSet == { found.list[i] : i \in 1..Len(found.list) }
Returned == pc = "fetched" /\ ~found.panic

\* the list without the immediate repetitions of an entry
Collapsed(list) ==
    SelectSeq([i \in 1..Len(list) |-> IF i > 1 /\ list[i] = list[i - 1] THEN <<0>> ELSE list[i]],
              LAMBDA q : q # <<0>>)

\* C11: whenever fetch returns, its result lists nodes below the starting node
\* in depth-first pre-order (the result, read without the repetitions of an
\* entry, is the pre-order listing of the nodes it contains), the starting node
\* is not in it, and every matching node is in it whether or not its
\* ancestors matched.
C11_PreOrder ==
    Returned =>
        /\ Collapsed(found.list) = SelectSeq(PreOrder(Root, <<>>, heap), LAMBDA q : q \in FoundSet)
        /\ <<>> \notin FoundSet
        /\ \A i \in 1..Len(PreOrder(Root, <<>>, heap)) :
              LET q == PreOrder(Root, <<>>, heap)[i]
              IN NodeMatches(NodeBelow(Root, q, heap), criteria) => q \in FoundSet

\* C11 witness: a search returned a node whose parent did not match and,
\* right after it, the first child of that node.
C11_Witness ==
    /\ Returned
    /\ \E i \in 1..(Len(found.list) - 1) :
          /\ Len(found.list[i]) = 2
          /\ SubSeq(found.list[i], 1, 1) \notin FoundSet
          /\ found.list[i + 1] = Append(found.list[i], 1)

\* C12 (as claimed): a node appears at most once in the result of fetch.
C12_RecordedOnce ==
    Returned => \A i, j \in 1..Len(found.list) : found.list[i] = found.list[j] => i = j

\* C13 (as claimed): a search without a key returns a result on every tree,
\* text nodes included, and records no node without an opening tag.
C13_NoKeyCompletes ==
    (pc = "fetched" /\ criteria.key = None) =>
        /\ ~found.panic
        /\ \A q \in FoundSet : IsSome(NodeBelow(Root, q, heap).start)

\* C14: whenever fetch returns, a node below the starting node is recorded
\* iff one of its candidate attributes matches: the candidates are the first
\* attribute of the name key if a key is set and every attribute otherwise; an
\* attribute matches iff its tokens joined by single spaces equal value if a
\* value is set (value_part is then ignored), else iff value_part is one of
\* its tokens if value_part is set, else always.
C14_MatchRule ==
    Returned =>
        \A i \in 1..Len(PreOrder(Root, <<>>, heap)) :
            LET q == PreOrder(Root, <<>>, heap)[i]
            IN q \in FoundSet <=> NodeMatches(NodeBelow(Root, q, heap), criteria)

\* C14 witness: with a key, a value and a value_part set, a node is recorded
\* whose attribute of that name has the value but not the value_part among
\* its tokens, and a whole token "vw" did not make the value_part "v" match.
C14_Witness ==
    /\ Returned
    /\ IsSome(criteria.key) /\ IsSome(criteria.value) /\ IsSome(criteria.value_part)
    /\ \E q \in FoundSet :
          LET attr == Unwrap(attribute_by_name(NodeBelow(Root, q, heap), Unwrap(criteria.key)))
          IN /\ Len(attr.values) = 2
             /\ \A i \in 1..Len(attr.values) : attr.values[i] # Unwrap(criteria.value_part)
             /\ \E i \in 1..Len(attr.values) :
                   Len(attr.values[i]) = 2 /\ attr.values[i][1] = Unwrap(criteria.value_part)[1]

----------------------------------------------------------------------------
(* SpecValues: an Attribute is made from a raw value string, as the        *)
(* attributes loop of from_html makes it, and values_to_string is called.  *)

\* longest raw value string of an attribute
MaxValue == 4

ValueChars == {"v", "w", " ", "\t"}

RawValues == UNION { [1..n -> ValueChars] : n \in 0..MaxValue }

InitValues ==
    /\ pc = "attribute"
    /\ vraw \in RawValues
    /\ vret = <<>>
    /\ heap = <<>>
    /\ BuildIdle /\ OwnIdle /\ AttrIdle /\ FetchIdle

\* let s = Attribute::from_name_and_str_values(name, vraw).values_to_string()
ValuesToString ==
    /\ pc = "attribute"
    /\ pc' = "joined"
    /\ vret' = values_to_string(from_name_and_str_values("k", vraw))
    /\ UNCHANGED <<vraw, heap, buildVars, ownVars, attrVars, fetchVars>>

NextValues == ValuesToString

SpecValues == InitValues /\ [][NextValues]_vars

\* C15 (as claimed): for every value list, the empty one included,
\* values_to_string returns the tokens joined by single spaces, the empty
\* string for the empty list, and its length computation does not go below
\* zero.
C15_ValuesToString ==
    pc = "joined" =>
        LET attr == from_name_and_str_values("k", vraw)
        IN /\ vret # Panic
           /\ vret = SpaceJoined(attr.values)
           /\ values_len(attr.values) - 1 >= 0

\* values_to_string on an attribute with at least one value token
ValuesToStringNonEmpty ==
    (pc = "joined" /\ from_name_and_str_values("k", vraw).values # <<>>) =>
        vret = SpaceJoined(from_name_and_str_values("k", vraw).values)

----------------------------------------------------------------------------
(* SpecNorm: the token normalizer of from_html on Text events of every     *)
(* shape of whitespace.                                                    *)

\* longest Text event that is normalized
MaxText == 3

TextChars == {" ", "\t", "\n", "\r", "x"}

Texts == UNION { [1..n -> TextChars] : n \in 1..MaxText }

\* a Text event alone, and a Text event before or after a tag and another Text
NormInputs ==
    { <<Ev("Text", "", <<>>, t)>> : t \in Texts }
    \cup { <<Ev("Text", "", <<>>, t), Ev("Start", "a", <<>>, <<>>), Ev("Text", "", <<>>, u)>> :
           t \in Texts, u \in {<<"x", " ">>, <<" ", "\n">>} }
    \cup { <<Ev("Text", "", <<>>, u), Ev("End", "a", <<>>, <<>>), Ev("Text", "", <<>>, t)>> :
           t \in Texts, u \in {<<"x", " ">>, <<" ", "\n">>} }

InitNorm ==
    /\ pc = "collected"
    /\ events \in NormInputs
    /\ settings = DefaultSettings
    /\ fixed = <<>> /\ iter = 1 /\ nodes = <<>> /\ result = None /\ html = <<>>
    /\ heap = <<>>
    /\ OwnIdle /\ AttrIdle /\ FetchIdle /\ ValIdle

NextNorm == Normalize

SpecNorm == InitNorm /\ [][NextNorm]_vars

\* the number of whitespace characters t starts with, and ends with
LeadingSpace(t) ==
    CHOOSE n \in 0..Len(t) :
        /\ \A i \in 1..n : IsWhitespace(t[i])
        /\ n < Len(t) => ~IsWhitespace(t[n + 1])

TrailingSpace(t) ==
    CHOOSE n \in 0..Len(t) :
        /\ \A i \in 1..n : IsWhitespace(t[Len(t) + 1 - i])
        /\ n < Len(t) => ~IsWhitespace(t[Len(t) - n])

\* step 1 of the normalizer on a Text token
LeadingTrimmed(t) ==
    IF t = <<>> THEN t
    ELSE IF t[1] = "\n" THEN SubSeq(t, LeadingSpace(t) + 1, Len(t))
    ELSE IF t[1] \in {" ", "\t"} /\ \A i \in 2..Len(t) : t[i] \in {" ", "\t", "\n"}
         THEN SubSeq(t, LeadingSpace(t) + 1, Len(t))
    ELSE t

\* step 2, on the result of step 1
TrailingTrimmed(t) ==
    IF \E i \in 1..Len(t) : t[i] = "\n" THEN SubSeq(t, 1, Len(t) - TrailingSpace(t)) ELSE t

Normalized(t) == TrailingTrimmed(LeadingTrimmed(t))

\* the token list with every Text normalized and the empty ones removed
NormalizedList(list) ==
    SelectSeq([i \in 1..Len(list) |->
                  IF list[i].kind = "Text"
                  THEN [list[i] EXCEPT !.text = Normalized(list[i].text)] ELSE list[i]],
              LAMBDA e : e.kind # "Text" \/ e.text # <<>>)

\* C16: the normalizer strips the leading whitespace of a Text token that
\* starts with a newline, or that starts with a space or tab and holds
\* nothing but spaces, tabs and newlines after it; then strips the trailing
\* whitespace iff what is left contains a newline; then removes the token if
\* it is empty; other tokens and the order of the tokens are untouched.
C16_Normalizer ==
    pc = "loop" => fixed = NormalizedList(events)

\* C16 witness: a Text that starts with a newline has lost its leading
\* whitespace and kept its trailing space, before a Text of whitespace that
\* was removed.
C16_Witness ==
    /\ pc = "loop"
    /\ Len(events) = 3 /\ Len(fixed) = 2
    /\ events[1].text[1] = "\n"
    /\ fixed[1].kind = "Text" /\ fixed[1].text = <<"x", " ">>
    /\ fixed[2].kind = "Start"

----------------------------------------------------------------------------
(* SpecLoad: one call of from_html as a whole, on markups with unmatched   *)
(* and missing closing tags and with whitespace texts.                     *)

\* longest event list of a markup that is loaded
MaxTokens == 4

LoadAlphabet ==
    { Ev("Start", "a", <<>>, <<>>), Ev("End", "a", <<>>, <<>>), Ev("End", "b", <<>>, <<>>),
      Ev("Empty", "a", <<>>, <<>>), Ev("Text", "", <<>>, <<"x">>),
      Ev("Text", "", <<>>, <<"\n", " ">>) }

LoadMarkups == UNION { [1..n -> LoadAlphabet] : n \in 0..MaxTokens }

InitLoad ==
    /\ pc = "markup"
    /\ events \in LoadMarkups
    /\ settings \in Settings
    /\ fixed = <<>> /\ iter = 1 /\ nodes = <<>> /\ result = None /\ html = <<>>
    /\ heap = <<>>
    /\ OwnIdle /\ AttrIdle /\ FetchIdle /\ ValIdle

\* let result = Node::from_html(markup, &settings).unwrap()
Load ==
    /\ pc = "markup"
    /\ pc' = "built"
    /\ fixed' = fixed_list(events)
    /\ result' = from_html(events, settings, heap).result
    /\ heap' = from_html(events, settings, heap).heap
    /\ UNCHANGED <<events, settings, iter, nodes, html, ownVars, attrVars, fetchVars, valVars>>

NextLoad == Load

SpecLoad == InitLoad /\ [][NextLoad]_vars

\* C17: from_html returns no tree for an input that is empty or holds only
\* Text tokens that normalize to nothing, and a returned root has at least
\* one child.
C17_NoTree ==
    pc = "built" =>
        /\ (\A i \in 1..Len(events) :
                events[i].kind = "Text" /\ Normalized(events[i].text) = <<>>) => result = None
        /\ IsSome(result) => Len(Unwrap(result).children) >= 1

\* C17 witness: from_html has returned no tree for two whitespace texts.
C17_Witness ==
    /\ pc = "built"
    /\ Len(events) = 2
    /\ \A i \in 1..Len(events) : events[i].kind = "Text" /\ events[i].text[1] = "\n"
    /\ result = None

RECURSIVE Accesses(_, _)
\* every NodeAccess of the tree below node
Accesses(node, hp) ==
    UNION { {node.children[i]} \cup Accesses(Deref(hp, node.children[i]), hp) :
            i \in 1..Len(node.children) }

\* the Sharable handles to the allocation p in a returned tree
HandlesInTree(p) == RefsInChildren(Unwrap(result).children, p) + RefsInHeap(heap, p)

\* C18: in a returned tree every NodeAccess at every depth is of the variant
\* the settings select, and with the Sharable setting every node has one
\* handle and a reference count of 1, so that try_mut succeeds on it.
C18_UniformStorage ==
    (pc = "built" /\ IsSome(result)) =>
        \A na \in Accesses(Unwrap(result), heap) :
            /\ na.kind = settings.children_type
            /\ try_mut(na, heap)
            /\ na.kind = "Sharable" => (heap[na.ptr].rc = 1 /\ HandlesInTree(na.ptr) = 1)

\* C18 witness: a tree built with the Sharable setting that holds an element
\* inside an element.
C18_Witness ==
    /\ pc = "built" /\ IsSome(result)
    /\ settings.children_type = "Sharable"
    /\ \E na \in Accesses(Unwrap(result), heap) :
          \E nb \in Accesses(Deref(heap, na), heap) :
              IsSome(Deref(heap, na).start) /\ IsSome(Deref(heap, nb).start)

RECURSIVE Listing(_, _)
\* the element and text nodes of the tree below node in pre-order, an element
\* as its opening token and a text as its Text token; the text an element
\* keeps in its own `text` field follows the element
Listing(node, hp) ==
    LET own(n) == (IF IsSome(n.start)
                   THEN <<Ev(IF Unwrap(n.start).empty THEN "Empty" ELSE "Start",
                             Unwrap(n.start).name, <<>>, <<>>)>>
                   ELSE <<>>)
                  \o (IF IsSome(n.text) THEN <<Ev("Text", "", <<>>, Unwrap(n.text))>> ELSE <<>>)
        below(i) == own(Deref(hp, node.children[i])) \o Listing(Deref(hp, node.children[i]), hp)
        upto[n \in 0..Len(node.children)] == IF n = 0 THEN <<>> ELSE upto[n - 1] \o below(n)
    IN upto[Len(node.children)]

\* C20 (as claimed): every Start, Empty and Text token of the normalized
\* sequence is one node of the returned tree, in the order of the tokens.
C20_NoTokenLost ==
    pc = "built" =>
        (IF IsSome(result) THEN Listing(Unwrap(result), heap) ELSE <<>>)
            = SelectSeq(fixed, LAMBDA e : e.kind # "End")

\* the tokens are all in the tree when every End token closes an open element
NoTokenLostWellFormed ==
    (pc = "built" /\ WellFormed(fixed)) =>
        (IF IsSome(result) THEN Listing(Unwrap(result), heap) ELSE <<>>)
            = SelectSeq(fixed, LAMBDA e : e.kind # "End")

\* the nodes of a returned tree: the root and every node below it
TreeNodes(root, hp) == {root} \cup { Deref(hp, na) : na \in Accesses(root, hp) }

\* an element built from a Start token that has no closing tag
Unclosed(n) == IsSome(n.start) /\ ~Unwrap(n.start).empty /\ n.end = None

\* the position at which the frame of the Start token at position i of the
\* normalized sequence leaves its children loop
AfterChildren(i) == collect_children(fixed, read_text(fixed, i + 1).pos, settings, <<>>).pos

\* C21: in every tree returned by from_html an element built from a Start
\* token whose `end` is absent is the last child of its parent, and the frame
\* of every Start token stops collecting children at an End token or at the
\* end of the sequence.
C21_UnclosedIsLast ==
    pc = "built" =>
        /\ IsSome(result) =>
              \A p \in TreeNodes(Unwrap(result), heap) :
                  \A i \in 1..Len(p.children) :
                      Unclosed(Deref(heap, p.children[i])) => i = Len(p.children)
        /\ \A i \in 1..Len(fixed) :
              fixed[i].kind = "Start" =>
                  (AfterChildren(i) > Len(fixed) \/ fixed[AfterChildren(i)].kind = "End")

\* C21 witness: an element with two children or more whose last child is an
\* unclosed element that has taken a following node as its own child.
C21_Witness ==
    /\ pc = "built" /\ IsSome(result)
    /\ \E p \in TreeNodes(Unwrap(result), heap) :
          /\ IsSome(p.start)
          /\ Len(p.children) >= 2
          /\ Unclosed(Deref(heap, p.children[Len(p.children)]))
          /\ Len(Deref(heap, p.children[Len(p.children)]).children) >= 1

\* C21 witness of the recovery: an unclosed element stopped by an End token
\* of another name that closes no element.
C21_WitnessUnmatched ==
    /\ pc = "built" /\ IsSome(result)
    /\ \E i \in 1..Len(fixed) : fixed[i].kind = "End" /\ fixed[i].name = "b"
    /\ \E p \in TreeNodes(Unwrap(result), heap) :
          /\ Len(p.children) >= 2
          /\ Unclosed(Deref(heap, p.children[Len(p.children)]))

----------------------------------------------------------------------------
(* SpecMut: the caller of SpecOwn with children_fetch_mut().fetch_mut().   *)

\* the criteria of the caller's mutable search: .key("k")
KeyK == [key |-> Some("k"), value |-> None, value_part |-> None]

\* ChildrenFetchMut::fetch_mut: the &NodeAccess of fetch, each cast to &mut
fetch_mut(node, crit, hp) == fetch(node, crit, hp)

\* for r in node.children_fetch_mut().key("k").fetch_mut() {
\*     if let Some(n) = r.try_mut() { n.overwrite_attribute(EditAttr) } }
\* taken for one r, with &mut node got from the place pl.  The write goes
\* through a &mut made from a & by a pointer cast, which is undefined
\* behaviour: the write lands in the node or is not carried out.
CallFetchMut(pl, q, lands) ==
    /\ MutChain(pl)
    /\ try_mut(At(pl), heap)
    /\ LET f == fetch_mut(Deref(heap, At(pl)), KeyK, heap)
           target == [slot |-> pl.slot, path |-> pl.path \o q]
       IN /\ ~f.panic
          /\ \E n \in 1..Len(f.list) : f.list[n] = q
          /\ LET ok == try_mut(At(target), heap)
                 old == Deref(heap, At(target))
                 new == overwrite_attribute(old, EditAttr)
                 w == SetNodeAt(Unwrap(slots[pl.slot]), target.path, new, heap)
             IN /\ last' = Call("fetch_mut", target, 0, ok)
                /\ IF ok /\ lands
                   THEN /\ slots' = [slots EXCEPT ![pl.slot] = Some(w.na)]
                        /\ heap' = w.heap
                        /\ origin' = IF new = old THEN origin ELSE [origin EXCEPT ![pl.slot] = None]
                   ELSE UNCHANGED <<slots, heap, origin>>
    /\ UNCHANGED <<pc, buildVars, attrVars, fetchVars, valVars>>

\* the paths a search can return in trees of MaxDepth levels
FoundPaths == UNION { [1..n -> 1..MaxKids] : n \in 1..MaxDepth }

NextMut ==
    \/ NextOwn
    \/ \E pl \in Places, q \in FoundPaths, lands \in BOOLEAN : CallFetchMut(pl, q, lands)

SpecMut == InitOwn /\ [][NextMut]_vars

RECURSIVE Content(_, _)
\* what is observed through a node: its fields and, in place of its
\* children, what is observed through them
Content(node, hp) ==
    [start |-> node.start, text |-> node.text, end |-> node.end,
     children |-> [i \in 1..Len(node.children) |-> Content(Deref(hp, node.children[i]), hp)]]

\* the allocations with two or more live handles
SharedPtrs == { p \in 1..Len(heap) : IsSome(heap[p].node) /\ LiveHandles(p) >= 2 }

\* C19 (as claimed): no operation of the caller changes what is observed
\* through a handle to a Sharable allocation that has two or more live
\* handles, the nodes below it included.
C19_SharedNotMutated ==
    [][\A p \in SharedPtrs :
          /\ p <= Len(heap') /\ IsSome(heap'[p].node)
          /\ Content(Unwrap(heap'[p].node), heap') = Content(Unwrap(heap[p].node), heap)]_vars

====
